---------------------------- MODULE Spec2Model ----------------------------
(***************************************************************************)
(* A model of the streaming converters of schema_management_tools:         *)
(*   convert_json_ndjson.py  convert_ndjson_to_json, write_batch,          *)
(*                           convert_json_to_ndjson, the CLI dispatch      *)
(*   flatten_json.py         flatten_json_stream, _write_to_csv,           *)
(*                           decimal_object_hook, DecimalEncoder           *)
(*                                                                         *)
(* Files are modelled by their structure.  A JSON number literal is the    *)
(* pair (u, s): the digits u written with s digits after the decimal       *)
(* point, so 16000.50 is (1600050, 2) and 16000.5 is (160005, 1).  Python  *)
(* values carry their type (int, float, Decimal, str), and every decode    *)
(* and encode step is computed as the interpreter computes it.             *)
(***************************************************************************)
EXTENDS Integers, Sequences, FiniteSets, TLC

VARIABLES
    mode,            \* the function that is running
    stage,           \* 1: the first command; 2: ndjson-to-json run on the output of json-to-ndjson
    input,           \* the input file
    origin,          \* the first command's arguments: its input file and batch size
    batch_size,      \* the batch_size argument
    pc,              \* position in the function: start, stream, final, done; infer, demote
    outcome,         \* running, ok, notfound, jsonerror, error
    pos,             \* lines / array elements consumed so far (line_num, i)
    batch,           \* the pending batch (decoded Python values)
    is_first_object, \* convert_ndjson_to_json's flag
    object_count,    \* the success counter
    fieldnames,      \* the DictWriter's fieldnames (header), <<>> before it exists
    header_written,  \* _write_to_csv's flag
    source,          \* flatten_json_stream's branch: none, array, ndjson
    out_state,       \* the output file: absent (never opened), open, closed;
                     \* no_directory, unwritable: it cannot be opened
    outfile,         \* the output file: the sequence of pieces written to it
    log              \* the log records emitted, in order

\* The state of convert_ndjson_to_formats between the table and the Avro
\* writer.
VARIABLES
    description,     \* DESCRIBE data_table: the columns, as (col_name, col_type)
    type_mapping,    \* the dict objects held by type_mapping, by key
    avro_fields,     \* avro_schema["fields"]
    parsed_schema    \* the fields handed to parse_schema, <<>> before

avro_vars == <<description, type_mapping, avro_fields, parsed_schema>>

vars == <<mode, stage, input, origin, batch_size, pc, outcome, pos, batch,
          is_first_object, object_count, fieldnames, header_written, source, out_state,
          outfile, log, description, type_mapping, avro_fields, parsed_schema>>

\* ------------------------------------------------------------------ bounds

\* Longest input, in lines (NDJSON) or array elements (JSON array).
MaxLen == 4

\* Largest batch_size argument.
MaxBatch == 3

\* Columns of the table.
MaxCols == 3

\* ------------------------------------------------------------------ values

\* A scalar: k is its kind, (u, s) its digits and scale.
\*   JSON text:     "num" (a number literal), "str" (a quoted string of these digits)
\*   Python values: "int", "float", "Decimal", "str"
\*   CSV cells:     "cell" (unquoted text), "empty"
Lit(k, u, s) == [k |-> k, u |-> u, s |-> s]

Field(key, val) == [key |-> key, val |-> val]

\* A JSON object / Python dict: its fields in order.
Obj(fields) == [isobj |-> TRUE, fields |-> fields]

\* A top-level value that is not an object.
Scalar(v) == [isobj |-> FALSE, fields |-> <<Field("", v)>>]

NoValue == Scalar(Lit("none", 0, 0))

\* The records the inputs are drawn from.  16000.50 and 14000.00 are the
\* tuition values of the demonstration data.
recAB == Obj(<<Field("a", Lit("num", 1, 0)), Field("b", Lit("num", 1600050, 2))>>)

recAC == Obj(<<Field("a", Lit("num", 3, 0)), Field("c", Lit("num", 4, 0))>>)

recA == Obj(<<Field("a", Lit("num", 1400000, 2))>>)

seven == Scalar(Lit("num", 7, 0))

JsonValues == {recAB, recAC, recA, seven}

\* One line of an NDJSON file, or one element of a JSON array.
\*   json: a well-formed JSON value; blank: an empty or whitespace-only line;
\*   bad: text that is not JSON.
Line(kind, val) == [kind |-> kind, val |-> val]

BlankLine == Line("blank", NoValue)

BadLine == Line("bad", NoValue)

JsonLines == {Line("json", v) : v \in JsonValues}

SeqsUpTo(S, n) == UNION {[1..m -> S] : m \in 0..n}

\* The first index of s whose element has this kind, or Len(s) + 1.
FirstOfKind(s, kind) ==
    IF \E i \in 1..Len(s) : s[i].kind = kind
    THEN CHOOSE i \in 1..Len(s) : s[i].kind = kind /\ \A j \in 1..(i - 1) : s[j].kind # kind
    ELSE Len(s) + 1

\* A file.  exists: whether it can be opened.  shape: "lines" (NDJSON) or
\* "array" (one top-level JSON array, laid out as write_batch lays it out:
\* the bracket on a line of its own).  lead: whitespace before the first
\* character of the document ("", " " or "\n").  items: the lines or the
\* array's elements.  yields: how many elements the incremental array parser
\* hands over before it raises on a broken element.
File(exists, shape, lead, items, yields) ==
    [exists |-> exists, shape |-> shape, lead |-> lead, items |-> items, yields |-> yields]

NoFile == File(FALSE, "lines", "", <<>>, 0)

NdjsonFiles ==
    {File(TRUE, "lines", "", ls, Len(ls)) :
        ls \in SeqsUpTo(JsonLines \cup {BlankLine, BadLine}, MaxLen)}

\* ijson reads the file in chunks and hands over the elements parsed so far;
\* when a chunk holds a broken element, the elements completed in that chunk
\* may or may not have been handed over, depending on the backend.
YieldChoices(es) ==
    IF FirstOfKind(es, "bad") > Len(es)
    THEN {Len(es)}
    ELSE 0..(FirstOfKind(es, "bad") - 1)

ArrayFiles ==
    UNION {{File(TRUE, "array", "", es, y) : y \in YieldChoices(es)} :
              es \in SeqsUpTo(JsonLines \cup {BadLine}, MaxLen)}

\* ------------------------------------------------------------------ codec

\* float(text): repr() of the double nearest to the literal is its shortest
\* decimal form with at least one digit after the point.  (Exact for the
\* literals of at most 15 significant digits used here.)
RECURSIVE float_repr(_, _)
float_repr(u, s) ==
    IF s > 1 /\ u % 10 = 0 THEN float_repr(u \div 10, s - 1) ELSE Lit("float", u, s)

\* json.loads / ijson with use_float=True, on one scalar token: a literal
\* with a decimal point becomes a binary float, one without an int.
parse_scalar_float(t) ==
    IF t.k = "num"
    THEN (IF t.s = 0 THEN Lit("int", t.u, 0) ELSE float_repr(t.u, t.s))
    ELSE Lit("str", t.u, t.s)

\* ijson's default: a literal with a decimal point becomes a Decimal that
\* keeps the digits of the text.
parse_scalar_decimal(t) ==
    IF t.k = "num"
    THEN (IF t.s = 0 THEN Lit("int", t.u, 0) ELSE Lit("Decimal", t.u, t.s))
    ELSE Lit("str", t.u, t.s)

MapFields(v, F(_)) ==
    [isobj |-> v.isobj,
     fields |-> [i \in 1..Len(v.fields) |-> Field(v.fields[i].key, F(v.fields[i].val))]]

\* json.loads(line), as convert_ndjson_to_json calls it (no parse_float).
json_loads(v) == MapFields(v, parse_scalar_float)

\* ijson.items(infile, 'item', use_float=True): one element.
ijson_item_float(v) == MapFields(v, parse_scalar_float)

\* ijson.items(json_file_binary, 'item'): one element.
ijson_item(v) == MapFields(v, parse_scalar_decimal)

\* decimal_object_hook on one value of a dict: Decimal(str(value)) of a
\* float, which is the float's repr, not the text that was parsed.
hook_scalar(p) == IF p.k = "float" THEN Lit("Decimal", p.u, p.s) ELSE p

\* json.loads(line, object_hook=decimal_object_hook): the hook runs on
\* dicts only, after the numbers have been parsed to floats.
decimal_object_hook(v) == IF v.isobj THEN MapFields(v, hook_scalar) ELSE v

json_loads_hook(v) == decimal_object_hook(json_loads(v))

\* json.dumps of one scalar with cls=DecimalEncoder: an int and a float are
\* written as number literals (the float by its repr); a Decimal goes
\* through DecimalEncoder.default, str(o), and is written as a JSON string.
DecimalEncoder(p) ==
    CASE p.k = "int" -> Lit("num", p.u, 0)
      [] p.k = "float" -> Lit("num", p.u, p.s)
      [] p.k = "Decimal" -> Lit("str", p.u, p.s)
      [] OTHER -> Lit("str", p.u, p.s)

\* json.dumps(obj, cls=DecimalEncoder)
json_dumps(v) == MapFields(v, DecimalEncoder)

\* One value of a CSV row: str(v) of a Decimal, the writer's own text of
\* anything else (repr of a float).
csv_cell(p) == Lit("cell", p.u, p.s)

\* ------------------------------------------------------------------ output

\* One piece of output.
\*   open  '[\n'      sep  ',\n'      close  '\n]'      nl  '\n'
\*   obj     one JSON value (val: its text, as written by json.dumps)
\*   header  the CSV header row (val: the column names, in order)
\*   row     one CSV row (val: the cells, in column order)
Tok(t, val) == [t |-> t, val |-> val]

Piece(t) == Tok(t, NoValue)

\* One log record: its level, which message it is, and the number it reports.
Ev(lvl, msg, n) == [lvl |-> lvl, msg |-> msg, n |-> n]

\* ',\n'.join(['    ' + json.dumps(obj, cls=DecimalEncoder) for obj in batch])
RECURSIVE join_dumps(_)
join_dumps(b) ==
    IF Len(b) = 0 THEN <<>>
    ELSE IF Len(b) = 1 THEN <<Tok("obj", json_dumps(b[1]))>>
    ELSE <<Tok("obj", json_dumps(b[1])), Piece("sep")>> \o join_dumps(Tail(b))

\* write_batch writing only the first object of the batch.
write_batch_first_only(out, b, first) ==
    IF Len(b) = 0 THEN out
    ELSE out \o (IF first THEN <<>> ELSE <<Piece("sep")>>) \o join_dumps(<<b[1]>>)

\* write_batch without the separator in front of a later batch.
write_batch_no_separator(out, b, first) ==
    IF Len(b) = 0 THEN out ELSE out \o join_dumps(b)

\* write_batch(outfile, batch, is_first_object): the file after the call.
write_batch(out, b, first) ==
    IF Len(b) = 0 THEN out
    ELSE out \o (IF first THEN <<>> ELSE <<Piece("sep")>>) \o join_dumps(b)

\* for item in batch: json.dump(item, outfile, cls=DecimalEncoder); outfile.write('\n')
RECURSIVE dump_lines(_)
dump_lines(b) ==
    IF Len(b) = 0 THEN <<>>
    ELSE <<Tok("obj", json_dumps(b[1])), Piece("nl")>> \o dump_lines(Tail(b))

\* The lines of an NDJSON file that was written by convert_json_to_ndjson.
ndjson_lines(out) == [i \in 1..(Len(out) \div 2) |-> Line("json", out[2 * i - 1].val)]

\* ------------------------------------------------------------------ batching

\* The threshold test written with > for >=.
batch_full_strict(b, size) == Len(b) > size

\* len(batch) >= batch_size
batch_full(b, size) == Len(b) >= size

\* The error records reporting the 0-based index instead of line_num.
decode_error_records_zero_based(line_num) ==
    <<Ev("ERROR", "decode_error", line_num - 1), Ev("ERROR", "problem_line", 0)>>

\* The two records logger.error emits for a line json.loads rejects.
decode_error_records(line_num) ==
    <<Ev("ERROR", "decode_error", line_num), Ev("ERROR", "problem_line", 0)>>

\* ------------------------------------------------------------------ convert_ndjson_to_json

\* The exception open(path, 'w') raises for an output path in this state:
\* none for a path that can be created, FileNotFoundError for a path whose
\* directory is missing, PermissionError for a path that cannot be written.
open_error(path_state) ==
    CASE path_state = "no_directory" -> "FileNotFoundError"
      [] path_state = "unwritable" -> "PermissionError"
      [] OTHER -> "none"

\* The handlers without their last clause, `except Exception`: an exception
\* of a class no clause names leaves the function.
except_clause_named_only(fn, exc) ==
    CASE exc = "FileNotFoundError" ->
             [outcome |-> "notfound", evs |-> <<Ev("ERROR", "input_not_found", 0)>>]
      [] fn = "json_to_ndjson" /\ exc = "JSONError" ->
             [outcome |-> "jsonerror", evs |-> <<Ev("ERROR", "parse_error", 0)>>]
      [] OTHER ->
             [outcome |-> "raised", evs |-> <<>>]

\* The except clauses of the three functions: the clause that handles an
\* exception of this class raised in the try block, as the outcome of the
\* run and the records it logs.  Every clause returns.
except_clause(fn, exc) ==
    CASE exc = "FileNotFoundError" ->
             [outcome |-> "notfound", evs |-> <<Ev("ERROR", "input_not_found", 0)>>]
      [] fn = "json_to_ndjson" /\ exc = "JSONError" ->
             [outcome |-> "jsonerror", evs |-> <<Ev("ERROR", "parse_error", 0)>>]
      [] fn = "flatten" ->
             [outcome |-> "error", evs |-> <<Ev("ERROR", "flatten_error", 0)>>]
      [] OTHER ->
             [outcome |-> "error", evs |-> <<Ev("CRITICAL", "unexpected_error", 0)>>]

\* The `with` statement opening the output before the input: the output is
\* created and truncated although the input is missing.
convert_ndjson_to_json_open_output_first ==
    /\ mode = "ndjson_to_json"
    /\ pc = "start"
    /\ IF ~input.exists
       THEN /\ log' = log \o <<Ev("INFO", "start", 0), Ev("ERROR", "input_not_found", 0)>>
            /\ out_state' = "closed"
            /\ outfile' = <<>>
            /\ pc' = "done"
            /\ outcome' = "notfound"
       ELSE /\ log' = Append(log, Ev("INFO", "start", 0))
            /\ out_state' = "open"
            /\ outfile' = <<Piece("open")>>
            /\ pc' = "stream"
            /\ UNCHANGED outcome
    /\ is_first_object' = TRUE
    /\ batch' = <<>>
    /\ object_count' = 0
    /\ UNCHANGED <<mode, stage, input, origin, batch_size, pos, fieldnames,
                   header_written, source>>
    /\ UNCHANGED avro_vars

\* The function up to its loop: the two files are opened, the input first,
\* and the opening bracket is written.  A missing input is logged and the
\* function returns.
convert_ndjson_to_json_open ==
    /\ mode = "ndjson_to_json"
    /\ pc = "start"
    /\ IF ~input.exists
       THEN /\ log' = log \o <<Ev("INFO", "start", 0), Ev("ERROR", "input_not_found", 0)>>
            /\ pc' = "done"
            /\ outcome' = "notfound"
            /\ UNCHANGED <<out_state, outfile>>
       ELSE IF open_error(out_state) # "none"
       THEN LET h == except_clause("ndjson_to_json", open_error(out_state))
            IN  /\ log' = log \o <<Ev("INFO", "start", 0)>> \o h.evs
                /\ pc' = "done"
                /\ outcome' = h.outcome
                /\ UNCHANGED <<out_state, outfile>>
       ELSE /\ log' = Append(log, Ev("INFO", "start", 0))
            /\ out_state' = "open"
            /\ outfile' = <<Piece("open")>>
            /\ pc' = "stream"
            /\ UNCHANGED outcome
    /\ is_first_object' = TRUE
    /\ batch' = <<>>
    /\ object_count' = 0
    /\ UNCHANGED <<mode, stage, input, origin, batch_size, pos, fieldnames,
                   header_written, source>>
    /\ UNCHANGED avro_vars

\* The test written `if not line:`; a line read from a file keeps its
\* newline, so it is never empty.
is_blank_empty_only(line) == FALSE

\* not line.strip()
is_blank(line) == line.kind = "blank"

\* One iteration of `for line_num, line in enumerate(infile, 1)`.
convert_ndjson_to_json_line ==
    /\ mode = "ndjson_to_json"
    /\ pc = "stream"
    /\ pos < Len(input.items)
    /\ LET line_num == pos + 1
           line == input.items[line_num]
           appended == Append(batch, json_loads(line.val))
       IN  /\ pos' = line_num
           /\ CASE is_blank(line) ->
                     /\ log' = Append(log, Ev("DEBUG", "skip_empty", line_num))
                     /\ UNCHANGED <<batch, is_first_object, object_count, outfile>>
                [] line.kind # "json" ->
                     /\ log' = log \o decode_error_records(line_num)
                     /\ UNCHANGED <<batch, is_first_object, object_count, outfile>>
                [] OTHER ->
                     IF batch_full(appended, batch_size)
                     THEN /\ log' = Append(log, Ev("DEBUG", "batch", Len(appended)))
                          /\ outfile' = write_batch(outfile, appended, is_first_object)
                          /\ is_first_object' = FALSE
                          /\ object_count' = object_count + Len(appended)
                          /\ batch' = <<>>
                     ELSE /\ batch' = appended
                          /\ UNCHANGED <<log, is_first_object, object_count, outfile>>
    /\ UNCHANGED <<mode, stage, input, origin, batch_size, pc, outcome, fieldnames,
                   header_written, source, out_state>>
    /\ UNCHANGED avro_vars

\* The final batch written without being counted.
convert_ndjson_to_json_final_uncounted ==
    /\ mode = "ndjson_to_json"
    /\ pc = "stream"
    /\ pos = Len(input.items)
    /\ IF Len(batch) > 0
       THEN /\ log' = Append(log, Ev("DEBUG", "final_batch", Len(batch)))
            /\ outfile' = write_batch(outfile, batch, is_first_object)
       ELSE UNCHANGED <<log, outfile>>
    /\ pc' = "final"
    /\ UNCHANGED <<mode, stage, input, origin, batch_size, outcome, pos, batch,
                   is_first_object, object_count, fieldnames, header_written, source,
                   out_state>>
    /\ UNCHANGED avro_vars

\* `if batch:` after the loop: the final batch.  is_first_object is not
\* assigned here.
convert_ndjson_to_json_final ==
    /\ mode = "ndjson_to_json"
    /\ pc = "stream"
    /\ pos = Len(input.items)
    /\ IF Len(batch) > 0
       THEN /\ log' = Append(log, Ev("DEBUG", "final_batch", Len(batch)))
            /\ outfile' = write_batch(outfile, batch, is_first_object)
            /\ object_count' = object_count + Len(batch)
       ELSE UNCHANGED <<log, outfile, object_count>>
    /\ pc' = "final"
    /\ UNCHANGED <<mode, stage, input, origin, batch_size, outcome, pos, batch,
                   is_first_object, fieldnames, header_written, source, out_state>>
    /\ UNCHANGED avro_vars

\* The closing bracket, the end of the `with` block and the summary.
convert_ndjson_to_json_close ==
    /\ mode = "ndjson_to_json"
    /\ pc = "final"
    /\ outfile' = Append(outfile, Piece("close"))
    /\ out_state' = "closed"
    /\ log' = Append(log, Ev("INFO", "complete", object_count))
    /\ pc' = "done"
    /\ outcome' = "ok"
    /\ UNCHANGED <<mode, stage, input, origin, batch_size, pos, batch, is_first_object,
                   object_count, fieldnames, header_written, source>>
    /\ UNCHANGED avro_vars

\* ------------------------------------------------------------------ convert_json_to_ndjson

\* The function up to its loop.
convert_json_to_ndjson_open ==
    /\ mode = "json_to_ndjson"
    /\ pc = "start"
    /\ IF ~input.exists
       THEN /\ log' = log \o <<Ev("INFO", "start", 0), Ev("ERROR", "input_not_found", 0)>>
            /\ pc' = "done"
            /\ outcome' = "notfound"
            /\ UNCHANGED <<out_state, outfile>>
       ELSE IF open_error(out_state) # "none"
       THEN LET h == except_clause("json_to_ndjson", open_error(out_state))
            IN  /\ log' = log \o <<Ev("INFO", "start", 0)>> \o h.evs
                /\ pc' = "done"
                /\ outcome' = h.outcome
                /\ UNCHANGED <<out_state, outfile>>
       ELSE /\ log' = Append(log, Ev("INFO", "start", 0))
            /\ out_state' = "open"
            /\ outfile' = <<>>
            /\ pc' = "stream"
            /\ UNCHANGED outcome
    /\ batch' = <<>>
    /\ object_count' = 0
    /\ UNCHANGED <<mode, stage, input, origin, batch_size, pos, is_first_object,
                   fieldnames, header_written, source>>
    /\ UNCHANGED avro_vars

\* One iteration of `for obj in ijson.items(infile, 'item', use_float=True)`.
convert_json_to_ndjson_item ==
    /\ mode = "json_to_ndjson"
    /\ pc = "stream"
    /\ pos < input.yields
    /\ LET appended == Append(batch, ijson_item_float(input.items[pos + 1].val))
       IN  /\ pos' = pos + 1
           /\ IF batch_full(appended, batch_size)
              THEN /\ log' = Append(log, Ev("DEBUG", "batch", Len(appended)))
                   /\ outfile' = outfile \o dump_lines(appended)
                   /\ object_count' = object_count + Len(appended)
                   /\ batch' = <<>>
              ELSE /\ batch' = appended
                   /\ UNCHANGED <<log, object_count, outfile>>
    /\ UNCHANGED <<mode, stage, input, origin, batch_size, pc, outcome, is_first_object,
                   fieldnames, header_written, source, out_state>>
    /\ UNCHANGED avro_vars

\* The error handler writing the pending batch before it returns.
convert_json_to_ndjson_error_flush ==
    /\ mode = "json_to_ndjson"
    /\ pc = "stream"
    /\ pos = input.yields
    /\ input.yields < Len(input.items)
    /\ log' = Append(log, Ev("ERROR", "parse_error", 0))
    /\ out_state' = "closed"
    /\ outfile' = outfile \o dump_lines(batch)
    /\ pc' = "done"
    /\ outcome' = "jsonerror"
    /\ UNCHANGED <<mode, stage, input, origin, batch_size, pos, batch, is_first_object,
                   object_count, fieldnames, header_written, source>>
    /\ UNCHANGED avro_vars

\* The error handler removing the partial output.
convert_json_to_ndjson_error_rollback ==
    /\ mode = "json_to_ndjson"
    /\ pc = "stream"
    /\ pos = input.yields
    /\ input.yields < Len(input.items)
    /\ log' = Append(log, Ev("ERROR", "parse_error", 0))
    /\ out_state' = "closed"
    /\ outfile' = <<>>
    /\ pc' = "done"
    /\ outcome' = "jsonerror"
    /\ UNCHANGED <<mode, stage, input, origin, batch_size, pos, batch, is_first_object,
                   object_count, fieldnames, header_written, source>>
    /\ UNCHANGED avro_vars

\* The parser raises ijson.JSONError on a broken element: the handler logs
\* it and returns; the `with` block closes the files; the pending batch is
\* discarded with the frame.
convert_json_to_ndjson_error ==
    /\ mode = "json_to_ndjson"
    /\ pc = "stream"
    /\ pos = input.yields
    /\ input.yields < Len(input.items)
    /\ log' = Append(log, Ev("ERROR", "parse_error", 0))
    /\ out_state' = "closed"
    /\ pc' = "done"
    /\ outcome' = "jsonerror"
    /\ UNCHANGED <<mode, stage, input, origin, batch_size, pos, batch, is_first_object,
                   object_count, fieldnames, header_written, source, outfile>>
    /\ UNCHANGED avro_vars

\* The end of the array: the final batch and the summary.
convert_json_to_ndjson_final ==
    /\ mode = "json_to_ndjson"
    /\ pc = "stream"
    /\ pos = input.yields
    /\ input.yields = Len(input.items)
    /\ LET n == IF Len(batch) > 0 THEN object_count + Len(batch) ELSE object_count
       IN  /\ object_count' = n
           /\ log' = log \o (IF Len(batch) > 0
                             THEN <<Ev("DEBUG", "final_batch", Len(batch))>>
                             ELSE <<>>)
                        \o <<Ev("INFO", "complete", n)>>
    /\ outfile' = outfile \o dump_lines(batch)
    /\ out_state' = "closed"
    /\ pc' = "done"
    /\ outcome' = "ok"
    /\ UNCHANGED <<mode, stage, input, origin, batch_size, pos, batch, is_first_object,
                   fieldnames, header_written, source>>
    /\ UNCHANGED avro_vars

\* The command line run again, `ndjson-to-json` on the file that a completed
\* `json-to-ndjson` wrote, with a batch size of its own.
run_ndjson_to_json_on_output ==
    /\ mode = "json_to_ndjson"
    /\ stage = 1
    /\ pc = "done"
    /\ outcome = "ok"
    /\ \E b \in 0..MaxBatch : batch_size' = b
    /\ mode' = "ndjson_to_json"
    /\ stage' = 2
    /\ input' = File(TRUE, "lines", "", ndjson_lines(outfile), Len(ndjson_lines(outfile)))
    /\ pc' = "start"
    /\ outcome' = "running"
    /\ pos' = 0
    /\ batch' = <<>>
    /\ object_count' = 0
    /\ out_state' = "absent"
    /\ outfile' = <<>>
    /\ log' = <<>>
    /\ UNCHANGED <<origin, is_first_object, fieldnames, header_written, source>>
    /\ UNCHANGED avro_vars

\* ------------------------------------------------------------------ flatten_json_stream

\* The first character of one line: a blank line starts with whitespace, a
\* JSON object and the broken text (an object cut short) with a brace, a
\* number with a digit.
line_first_char(l) ==
    CASE l.kind = "blank" -> "\n"
      [] l.kind = "bad" -> "{"
      [] OTHER -> IF l.val.isobj THEN "{" ELSE "7"

\* json_file.read(1): the first character of the file, '' for an empty file.
first_char(f) ==
    IF f.lead # "" THEN f.lead
    ELSE IF f.shape = "array" THEN "["
    ELSE IF Len(f.items) = 0 THEN ""
    ELSE line_first_char(f.items[1])

\* The text lines of an array document: the bracket after the leading
\* whitespace, each element on a line of its own with a comma after all but
\* the last, the closing bracket.  Only the last element's line is a JSON
\* value by itself.
array_lines(f) ==
    (IF f.lead = "\n" THEN <<BlankLine, BadLine>> ELSE <<BadLine>>)
    \o [i \in 1..Len(f.items) |-> IF i = Len(f.items) THEN f.items[i] ELSE BadLine]
    \o <<BadLine>>

\* `for line in json_file`
file_lines(f) == IF f.shape = "lines" THEN f.items ELSE array_lines(f)

\* How many items the source hands over before it ends or raises.
items_before_stop(f, src) ==
    IF src = "array" THEN f.yields
    ELSE LET ls == file_lines(f)
             stops == {i \in 1..Len(ls) : ls[i].kind # "json"}
         IN  IF stops = {} THEN Len(ls)
             ELSE (CHOOSE i \in stops : \A j \in stops : i <= j) - 1

\* Whether the source raises after those items (a broken element for ijson;
\* a blank or undecodable line for json.loads in the generator expression).
source_raises(f, src) ==
    IF src = "array" THEN f.yields < Len(f.items)
    ELSE items_before_stop(f, src) < Len(file_lines(f))

\* The i-th item of the source, decoded.
source_item(f, src, i) ==
    IF src = "array" THEN ijson_item(f.items[i].val)
    ELSE json_loads_hook(file_lines(f)[i].val)

Keys(item) == {item.fields[i].key : i \in 1..Len(item.fields)}

ValueOf(item, key) ==
    item.fields[CHOOSE i \in 1..Len(item.fields) : item.fields[i].key = key].val

\* writer.writeheader(): the header row of fieldnames = item.keys().
header_row(item) ==
    Tok("header", Obj([i \in 1..Len(item.fields) |->
                          Field(item.fields[i].key, Lit("name", 0, 0))]))

\* csv.DictWriter's extrasaction='raise' (the default): writerow raises
\* ValueError for a dict with a key that is not a fieldname.
has_extra_fields(item, names) ==
    \E k \in Keys(item) : \A i \in 1..Len(names) : names[i] # k

\* A writerow that writes the cells of the fields the row has and leaves
\* out the columns it lacks.
csv_row_present_only(item, names) ==
    LET present == SelectSeq(names, LAMBDA n : n \in Keys(item))
    IN  Tok("row", Obj([i \in 1..Len(present) |->
                           Field(present[i], csv_cell(ValueOf(item, present[i])))]))

\* writer.writerow(row): the cells in fieldnames order, '' (restval) for a
\* fieldname the row lacks.
csv_row(item, names) ==
    Tok("row", Obj([i \in 1..Len(names) |->
                       Field(names[i],
                             IF names[i] \in Keys(item)
                             THEN csv_cell(ValueOf(item, names[i]))
                             ELSE Lit("empty", 0, 0))]))

\* flatten_json_stream up to the loop of _write_to_csv: the input is opened
\* and its first character read; the branch is chosen; the CSV file is
\* opened.  A missing input is logged and the function returns.
flatten_json_stream_open ==
    /\ mode = "flatten"
    /\ pc = "start"
    /\ IF ~input.exists
       THEN /\ log' = Append(log, Ev("ERROR", "input_not_found", 0))
            /\ pc' = "done"
            /\ outcome' = "notfound"
            /\ UNCHANGED <<source, out_state, outfile>>
       ELSE LET detected == Ev("INFO", IF first_char(input) = "["
                                       THEN "detected_array" ELSE "detected_ndjson", 0)
                h == except_clause("flatten", open_error(out_state))
            IN  /\ source' = IF first_char(input) = "[" THEN "array" ELSE "ndjson"
                /\ IF open_error(out_state) # "none"
                   THEN /\ log' = log \o <<detected>> \o h.evs
                        /\ pc' = "done"
                        /\ outcome' = h.outcome
                        /\ UNCHANGED <<out_state, outfile>>
                   ELSE /\ log' = Append(log, detected)
                        /\ out_state' = "open"
                        /\ outfile' = <<>>
                        /\ pc' = "stream"
                        /\ UNCHANGED outcome
    /\ fieldnames' = <<>>
    /\ header_written' = FALSE
    /\ UNCHANGED <<mode, stage, input, origin, batch_size, pos, batch, is_first_object,
                   object_count>>
    /\ UNCHANGED avro_vars

\* The loop without its isinstance test: every item is taken for a dict.
is_dict_unchecked(item) == TRUE

\* isinstance(item, dict)
is_dict(item) == item.isobj

\* One iteration of `for i, item in enumerate(items)` in _write_to_csv.
write_to_csv_item ==
    /\ mode = "flatten"
    /\ pc = "stream"
    /\ pos < items_before_stop(input, source)
    /\ LET i == pos
           item == source_item(input, source, pos + 1)
           names == IF header_written THEN fieldnames
                    ELSE [j \in 1..Len(item.fields) |-> item.fields[j].key]
       IN  /\ pos' = pos + 1
           /\ IF ~is_dict(item)
              THEN /\ log' = Append(log, Ev("WARNING", "skip_non_dict", i))
                   /\ UNCHANGED <<fieldnames, header_written, outfile, out_state,
                                  pc, outcome>>
              ELSE /\ fieldnames' = names
                   /\ header_written' = TRUE
                   /\ IF has_extra_fields(item, names)
                      THEN \* ValueError, caught by `except Exception`
                           /\ outfile' = outfile \o (IF header_written THEN <<>>
                                                     ELSE <<header_row(item)>>)
                           /\ log' = Append(log, Ev("ERROR", "flatten_error", 0))
                           /\ out_state' = "closed"
                           /\ pc' = "done"
                           /\ outcome' = "error"
                      ELSE /\ outfile' = outfile
                                           \o (IF header_written THEN <<>>
                                               ELSE <<header_row(item)>>)
                                           \o <<csv_row(item, names)>>
                           /\ UNCHANGED <<log, out_state, pc, outcome>>
    /\ UNCHANGED <<mode, stage, input, origin, batch_size, batch, is_first_object,
                   object_count, source>>
    /\ UNCHANGED avro_vars

\* The source raises (ijson on a broken element, json.loads on a blank or
\* undecodable line): the exception leaves _write_to_csv, the CSV file is
\* closed, and `except Exception` logs it.
flatten_json_stream_error ==
    /\ mode = "flatten"
    /\ pc = "stream"
    /\ pos = items_before_stop(input, source)
    /\ source_raises(input, source)
    /\ log' = Append(log, Ev("ERROR", "flatten_error", 0))
    /\ out_state' = "closed"
    /\ pc' = "done"
    /\ outcome' = "error"
    /\ UNCHANGED <<mode, stage, input, origin, batch_size, pos, batch, is_first_object,
                   object_count, fieldnames, header_written, source, outfile>>
    /\ UNCHANGED avro_vars

\* The source is exhausted: the files are closed and success is logged.
flatten_json_stream_end ==
    /\ mode = "flatten"
    /\ pc = "stream"
    /\ pos = items_before_stop(input, source)
    /\ ~source_raises(input, source)
    /\ log' = Append(log, Ev("INFO", "flattened", 0))
    /\ out_state' = "closed"
    /\ pc' = "done"
    /\ outcome' = "ok"
    /\ UNCHANGED <<mode, stage, input, origin, batch_size, pos, batch, is_first_object,
                   object_count, fieldnames, header_written, source, outfile>>
    /\ UNCHANGED avro_vars

\* ------------------------------------------------------------------ convert_ndjson_to_formats

\* An engine column type as DESCRIBE prints it: the text before the first
\* parenthesis, and the rest.
ColType(base, args) == [base |-> base, args |-> args]

\* col_type.split('(')[0]
split_paren(col_type) == col_type.base

\* col_type.startswith('DECIMAL')
startswith_decimal(col_type) == col_type.base = "DECIMAL"

\* The column types of the tables read: mapped scalar types, a date, decimals
\* of two precisions, and a type the mapping does not name.
ColTypes ==
    {ColType("VARCHAR", ""), ColType("DOUBLE", ""), ColType("DATE", ""),
     ColType("DECIMAL", "(18,2)"), ColType("DECIMAL", "(10,4)"), ColType("TIMESTAMP", "")}

\* The tables: column i is named i.
Descriptions ==
    {[i \in 1..Len(ts) |-> [name |-> i, type |-> ts[i]]] : ts \in SeqsUpTo(ColTypes, MaxCols)}

\* An Avro type: a name (kind "str"), a reference to one of the dict objects
\* of type_mapping (kind "ref", type its key), or the content of a dict (kind
\* "dict").  precision and scale are 0 while the dict has no such key.
AvroType(kind, type, logicalType, precision, scale) ==
    [kind |-> kind, type |-> type, logicalType |-> logicalType,
     precision |-> precision, scale |-> scale]

AvroName(n) == AvroType("str", n, "", 0, 0)

AvroRef(key) == AvroType("ref", key, "", 0, 0)

\* The two dict objects type_mapping is built with.
type_mapping_dicts ==
    [key \in {"DATE", "DECIMAL"} |->
        IF key = "DATE" THEN AvroType("dict", "int", "date", 0, 0)
        ELSE AvroType("dict", "bytes", "decimal", 0, 0)]

\* type_mapping.get(key, "string"): a name, or the dict object of the key.
type_mapping_get(key) ==
    CASE key = "VARCHAR" -> AvroName("string")
      [] key = "BIGINT" -> AvroName("long")
      [] key = "DOUBLE" -> AvroName("double")
      [] key = "BOOLEAN" -> AvroName("boolean")
      [] key \in {"DATE", "DECIMAL"} -> AvroRef(key)
      [] OTHER -> AvroName("string")

\* The value of a type with its references followed.
deref(t, dicts) == IF t.kind = "ref" THEN dicts[t.type] ELSE t

\* The demotion test applied to field["type"], the union list, which is no
\* dict.
is_decimal_field_of_union(field, dicts) == FALSE

\* isinstance(field["type"][1], dict) and
\* field["type"][1].get("logicalType") == "decimal"
is_decimal_field(field, dicts) ==
    /\ field.type[2].kind = "ref"
    /\ dicts[field.type[2].type].logicalType = "decimal"

\* One iteration of the loop of infer_avro_schema_from_duckdb over the
\* description.  The precision and the scale are set on the dict object of
\* type_mapping, which every decimal field refers to.
infer_avro_schema_from_duckdb_column ==
    /\ mode = "formats"
    /\ pc = "infer"
    /\ pos < Len(description)
    /\ LET col == description[pos + 1]
           avro_type == type_mapping_get(split_paren(col.type))
       IN  /\ type_mapping' =
                 IF startswith_decimal(col.type)
                 THEN [type_mapping EXCEPT ![avro_type.type].precision = 18,
                                           ![avro_type.type].scale = 2]
                 ELSE type_mapping
           /\ avro_fields' = Append(avro_fields,
                                    [name |-> col.name,
                                     type |-> <<AvroName("null"), avro_type>>])
    /\ pos' = pos + 1
    /\ UNCHANGED <<mode, stage, input, origin, batch_size, pc, outcome, batch,
                   is_first_object, object_count, fieldnames, header_written, source,
                   out_state, outfile, log, description, parsed_schema>>

\* infer_avro_schema_from_duckdb returns the record schema.
infer_avro_schema_from_duckdb_return ==
    /\ mode = "formats"
    /\ pc = "infer"
    /\ pos = Len(description)
    /\ pc' = "demote"
    /\ pos' = 0
    /\ UNCHANGED <<mode, stage, input, origin, batch_size, outcome, batch,
                   is_first_object, object_count, fieldnames, header_written, source,
                   out_state, outfile, log>>
    /\ UNCHANGED avro_vars

\* One iteration of `for field in avro_schema["fields"]`.
convert_ndjson_to_formats_demote ==
    /\ mode = "formats"
    /\ pc = "demote"
    /\ pos < Len(avro_fields)
    /\ avro_fields' =
          IF is_decimal_field(avro_fields[pos + 1], type_mapping)
          THEN [avro_fields EXCEPT ![pos + 1].type[2] = AvroName("string")]
          ELSE avro_fields
    /\ pos' = pos + 1
    /\ UNCHANGED <<mode, stage, input, origin, batch_size, pc, outcome, batch,
                   is_first_object, object_count, fieldnames, header_written, source,
                   out_state, outfile, log, description, type_mapping, parsed_schema>>

\* parse_schema(avro_schema): the writer's schema is the fields as they are
\* now, the dict objects included.
convert_ndjson_to_formats_parse_schema ==
    /\ mode = "formats"
    /\ pc = "demote"
    /\ pos = Len(avro_fields)
    /\ parsed_schema' =
          [i \in 1..Len(avro_fields) |->
              [name |-> avro_fields[i].name,
               type |-> <<avro_fields[i].type[1],
                          deref(avro_fields[i].type[2], type_mapping)>>]]
    /\ pc' = "done"
    /\ outcome' = "ok"
    /\ UNCHANGED <<mode, stage, input, origin, batch_size, pos, batch,
                   is_first_object, object_count, fieldnames, header_written, source,
                   out_state, outfile, log, description, type_mapping, avro_fields>>

\* convert_ndjson_to_formats from the table on: the description of any
\* table of at most MaxCols columns.
InitAvro ==
    /\ mode = "formats"
    /\ stage = 1
    /\ input = NoFile
    /\ batch_size = 0
    /\ origin = [input |-> input, batch_size |-> batch_size]
    /\ pc = "infer"
    /\ outcome = "running"
    /\ pos = 0
    /\ batch = <<>>
    /\ is_first_object = TRUE
    /\ object_count = 0
    /\ fieldnames = <<>>
    /\ header_written = FALSE
    /\ source = "none"
    /\ out_state = "absent"
    /\ outfile = <<>>
    /\ log = <<>>
    /\ description \in Descriptions
    /\ type_mapping = type_mapping_dicts
    /\ avro_fields = <<>>
    /\ parsed_schema = <<>>

NextAvro ==
    \/ infer_avro_schema_from_duckdb_column
    \/ infer_avro_schema_from_duckdb_return
    \/ convert_ndjson_to_formats_demote
    \/ convert_ndjson_to_formats_parse_schema

SpecAvro == InitAvro /\ [][NextAvro]_vars

\* ------------------------------------------------------------------ specification

\* The inputs flatten_json_stream is run on: NDJSON files, and array
\* documents with or without whitespace before the bracket.
FlattenFiles ==
    NdjsonFiles \cup
    {File(TRUE, "array", l, f.items, f.yields) : l \in {"", " ", "\n"}, f \in ArrayFiles}

Init ==
    /\ mode \in {"ndjson_to_json", "json_to_ndjson", "flatten"}
    /\ stage = 1
    /\ input \in CASE mode = "ndjson_to_json" -> NdjsonFiles \cup {NoFile}
                   [] mode = "json_to_ndjson" -> ArrayFiles \cup {NoFile}
                   [] OTHER -> FlattenFiles \cup {NoFile}
    /\ batch_size \in IF mode = "flatten" THEN {0} ELSE 0..MaxBatch
    /\ origin = [input |-> input, batch_size |-> batch_size]
    /\ pc = "start"
    /\ outcome = "running"
    /\ pos = 0
    /\ batch = <<>>
    /\ is_first_object = TRUE
    /\ object_count = 0
    /\ fieldnames = <<>>
    /\ header_written = FALSE
    /\ source = "none"
    /\ out_state = "absent"
    /\ outfile = <<>>
    /\ log = <<>>
    /\ description = <<>>
    /\ type_mapping = type_mapping_dicts
    /\ avro_fields = <<>>
    /\ parsed_schema = <<>>

Next ==
    \/ convert_ndjson_to_json_open
    \/ convert_ndjson_to_json_line
    \/ convert_ndjson_to_json_final
    \/ convert_ndjson_to_json_close
    \/ convert_json_to_ndjson_open
    \/ convert_json_to_ndjson_item
    \/ convert_json_to_ndjson_error
    \/ convert_json_to_ndjson_final
    \/ run_ndjson_to_json_on_output
    \/ flatten_json_stream_open
    \/ write_to_csv_item
    \/ flatten_json_stream_error
    \/ flatten_json_stream_end

Spec == Init /\ [][Next]_vars

\* ------------------------------------------------------------------ failing environment

MaxFaultLen == 3

\* A read or a write raises OSError inside the with block of
\* convert_ndjson_to_json: the files are closed, the objects of the batch
\* are dropped with the frame, and the matching except clause logs and
\* returns.
convert_ndjson_to_json_io_error ==
    /\ mode = "ndjson_to_json"
    /\ pc \notin {"start", "done"}
    /\ LET h == except_clause("ndjson_to_json", "OSError")
       IN  /\ log' = log \o h.evs
           /\ outcome' = h.outcome
    /\ out_state' = "closed"
    /\ pc' = "done"
    /\ UNCHANGED <<mode, stage, input, origin, batch_size, pos, batch, is_first_object,
                   object_count, fieldnames, header_written, source, outfile>>
    /\ UNCHANGED avro_vars

\* The same inside the with block of convert_json_to_ndjson.
convert_json_to_ndjson_io_error ==
    /\ mode = "json_to_ndjson"
    /\ pc \notin {"start", "done"}
    /\ LET h == except_clause("json_to_ndjson", "OSError")
       IN  /\ log' = log \o h.evs
           /\ outcome' = h.outcome
    /\ out_state' = "closed"
    /\ pc' = "done"
    /\ UNCHANGED <<mode, stage, input, origin, batch_size, pos, batch, is_first_object,
                   object_count, fieldnames, header_written, source, outfile>>
    /\ UNCHANGED avro_vars

\* The same inside _write_to_csv, under the try of flatten_json_stream.
flatten_json_stream_io_error ==
    /\ mode = "flatten"
    /\ pc \notin {"start", "done"}
    /\ LET h == except_clause("flatten", "OSError")
       IN  /\ log' = log \o h.evs
           /\ outcome' = h.outcome
    /\ out_state' = "closed"
    /\ pc' = "done"
    /\ UNCHANGED <<mode, stage, input, origin, batch_size, pos, batch, is_first_object,
                   object_count, fieldnames, header_written, source, outfile>>
    /\ UNCHANGED avro_vars

\* The runs of Init on inputs of at most MaxFaultLen items, with an output
\* path that can be created, that lies in a missing directory, or that
\* cannot be written.
InitFaults ==
    /\ mode \in {"ndjson_to_json", "json_to_ndjson", "flatten"}
    /\ stage = 1
    /\ input \in {f \in (CASE mode = "ndjson_to_json" -> NdjsonFiles \cup {NoFile}
                           [] mode = "json_to_ndjson" -> ArrayFiles \cup {NoFile}
                           [] OTHER -> FlattenFiles \cup {NoFile}) :
                     Len(f.items) <= MaxFaultLen}
    /\ batch_size \in IF mode = "flatten" THEN {0} ELSE 0..MaxBatch
    /\ origin = [input |-> input, batch_size |-> batch_size]
    /\ pc = "start"
    /\ outcome = "running"
    /\ pos = 0
    /\ batch = <<>>
    /\ is_first_object = TRUE
    /\ object_count = 0
    /\ fieldnames = <<>>
    /\ header_written = FALSE
    /\ source = "none"
    /\ out_state \in {"absent", "no_directory", "unwritable"}
    /\ outfile = <<>>
    /\ log = <<>>
    /\ description = <<>>
    /\ type_mapping = type_mapping_dicts
    /\ avro_fields = <<>>
    /\ parsed_schema = <<>>

NextFaults ==
    \/ Next
    \/ convert_ndjson_to_json_io_error
    \/ convert_json_to_ndjson_io_error
    \/ flatten_json_stream_io_error

SpecFaults == InitFaults /\ [][NextFaults]_vars

\* ------------------------------------------------------------------ properties

Converting == mode \in {"ndjson_to_json", "json_to_ndjson"}

OfKind(items, kind) == SelectSeq(items, LAMBDA l : l.kind = kind)

\* The JSON values written to the output, in order.
WrittenValues(out) ==
    LET objs == SelectSeq(out, LAMBDA p : p.t = "obj")
    IN  [i \in 1..Len(objs) |-> objs[i].val]

\* What the running converter reads of one well-formed line or element, written again.
Transcoded(v) ==
    IF mode = "ndjson_to_json" THEN json_dumps(json_loads(v))
    ELSE json_dumps(ijson_item_float(v))

TranscodedAll(items) ==
    LET good == OfKind(items, "json")
    IN  [i \in 1..Len(good) |-> Transcoded(good[i].val)]

DumpedAll(b) == [i \in 1..Len(b) |-> json_dumps(b[i])]

IsPrefix(s, t) == Len(s) <= Len(t) /\ SubSeq(t, 1, Len(s)) = s

\* The log records of one message.
Logged(msg) == SelectSeq(log, LAMBDA e : e.msg = msg)

\* The batches written, in order, as the debug records report them.
Flushes == SelectSeq(log, LAMBDA e : e.msg \in {"batch", "final_batch"})

\* C1: with batch_size >= 1, a converter that runs to completion has written
\* exactly the decodable input records, each once and in input order; while
\* it streams, the output followed by the pending batch is the decodable
\* part of the input consumed so far, in order.
C1_RecordsWrittenOnceInOrder ==
    (Converting /\ batch_size >= 1) =>
        /\ (pc = "stream" =>
               WrittenValues(outfile) \o DumpedAll(batch)
                   = TranscodedAll(SubSeq(input.items, 1, pos)))
        /\ (pc = "done" /\ outcome = "ok" =>
               WrittenValues(outfile) = TranscodedAll(input.items))

\* A completed run that wrote three records or more in batches of two, the
\* first two of them different.
C1_Witness ==
    /\ Converting /\ stage = 1 /\ batch_size = 2
    /\ pc = "done" /\ outcome = "ok"
    /\ Len(WrittenValues(outfile)) >= 3
    /\ WrittenValues(outfile)[1] # WrittenValues(outfile)[2]

\* C2: a complete run over N decodable records with batch_size B >= 1
\* flushes N div B full batches of B records each, then one final batch of
\* N mod B records exactly when N mod B > 0, and N records in all.
C2_BatchCompleteness ==
    (Converting /\ batch_size >= 1 /\ pc = "done" /\ outcome = "ok") =>
        LET N == Len(OfKind(input.items, "json"))
            B == batch_size
        IN  /\ Len(Flushes) = (N \div B) + (IF N % B > 0 THEN 1 ELSE 0)
            /\ \A i \in 1..(N \div B) : Flushes[i] = Ev("DEBUG", "batch", B)
            /\ (N % B > 0 => Flushes[Len(Flushes)] = Ev("DEBUG", "final_batch", N % B))
            /\ Len(WrittenValues(outfile)) = N

\* A complete run with at least one full batch and a remainder batch.
C2_Witness ==
    /\ Converting /\ stage = 1 /\ batch_size = 2
    /\ pc = "done" /\ outcome = "ok"
    /\ Len(OfKind(input.items, "json")) = 3
    /\ Len(Flushes) = 2

OneBadLine ==
    /\ mode = "ndjson_to_json"
    /\ input.exists
    /\ Len(OfKind(input.items, "bad")) = 1

\* C3: in convert_ndjson_to_json an input of N non-blank lines with exactly
\* one malformed line, at line k, never fails; at the end N - 1 records are
\* written, exactly one decode error is logged and it names line k, the
\* closing bracket is written and the summary is logged; and the step that
\* reads the malformed line leaves the pending batch, the success count and
\* the output as they were.
C3_ErrorIsolation ==
    /\ [](OneBadLine =>
            /\ outcome \in {"running", "ok"}
            /\ (pc = "done" =>
                   /\ outcome = "ok"
                   /\ Len(WrittenValues(outfile))
                          = Len(input.items) - Len(OfKind(input.items, "blank")) - 1
                   /\ Logged("decode_error")
                          = <<Ev("ERROR", "decode_error", FirstOfKind(input.items, "bad"))>>
                   /\ outfile[Len(outfile)] = Piece("close")
                   /\ log[Len(log)] = Ev("INFO", "complete", Len(WrittenValues(outfile)))))
    /\ [][(/\ mode = "ndjson_to_json"
           /\ pc = "stream"
           /\ pos < Len(input.items)
           /\ input.items[pos + 1].kind = "bad")
          => (batch' = batch /\ object_count' = object_count /\ outfile' = outfile)]_vars

\* A completed run over three non-blank lines, the second one malformed,
\* after a blank line.
C3_Witness ==
    /\ OneBadLine /\ pc = "done"
    /\ Len(input.items) = 4
    /\ input.items[1].kind = "blank"
    /\ input.items[3].kind = "bad"
    /\ Len(WrittenValues(outfile)) = 2

BrokenArray ==
    /\ mode = "json_to_ndjson"
    /\ input.exists
    /\ FirstOfKind(input.items, "bad") <= Len(input.items)

\* C4: in convert_json_to_ndjson an array with a broken element ends the run
\* with the container-level parse error; the output only ever holds records
\* that precede the break, in order; and no step of the run, the failing one
\* included, takes back anything already written.
C4_FatalContainerFailure ==
    /\ [](BrokenArray =>
            /\ IsPrefix(WrittenValues(outfile),
                        TranscodedAll(SubSeq(input.items, 1,
                                             FirstOfKind(input.items, "bad") - 1)))
            /\ (pc = "done" =>
                   /\ outcome = "jsonerror"
                   /\ Len(Logged("parse_error")) = 1
                   /\ Len(Logged("complete")) = 0))
    /\ [][(mode = "json_to_ndjson" /\ mode' = "json_to_ndjson")
          => IsPrefix(outfile, outfile')]_vars

\* A run aborted at a broken third element, after a batch had been flushed,
\* with an element left behind the break.
C4_Witness ==
    /\ BrokenArray
    /\ pc = "done" /\ outcome = "jsonerror"
    /\ FirstOfKind(input.items, "bad") = 3
    /\ Len(input.items) = 4
    /\ input.items[4].kind = "json"
    /\ Len(WrittenValues(outfile)) = 2

\* The CSV rows written, in order.
Rows(out) == SelectSeq(out, LAMBDA p : p.t = "row")

\* The lines of the input that hold a JSON object.
ObjectLines(f) == SelectSeq(file_lines(f), LAMBDA l : l.kind = "json" /\ l.val.isobj)

\* C5: in the CSV sink, after a first record with fields a, b and a second
\* with fields a, c, the header is a,b, the second row is the value of a and
\* an empty cell for b (c dropped), the run goes on to the later records and
\* ends normally, and a schema anomaly is logged as a warning.
C5_HeaderFreeze ==
    (/\ mode = "flatten" /\ pc = "done"
     /\ input.exists /\ input.lead = ""
     /\ Len(input.items) >= 2
     /\ input.items[1] = Line("json", recAB)
     /\ input.items[2] = Line("json", recAC)
     /\ \A i \in 1..Len(input.items) :
            input.items[i].kind = "json" /\ input.items[i].val.isobj)
    => /\ outcome = "ok"
       /\ Len(outfile) >= 3
       /\ outfile[1] = Tok("header", Obj(<<Field("a", Lit("name", 0, 0)),
                                           Field("b", Lit("name", 0, 0))>>))
       /\ outfile[3] = Tok("row", Obj(<<Field("a", Lit("cell", 3, 0)),
                                        Field("b", Lit("empty", 0, 0))>>))
       /\ Len(Rows(outfile)) = Len(input.items)
       /\ \E i \in 1..Len(log) : log[i].lvl = "WARNING" /\ log[i].msg = "schema_anomaly"

\* C6: a number token with a fractional part is written with the digits it
\* had in the input, on every path: both converters, and the NDJSON branch
\* of flatten_json_stream.
C6_DecimalFidelity ==
    /\ (Converting /\ batch_size >= 1) =>
           LET good == OfKind(input.items, "json")
               W == WrittenValues(outfile)
           IN  \A i \in 1..Len(W) : \A j \in 1..Len(W[i].fields) :
                   good[i].val.fields[j].val.s > 0
                       => W[i].fields[j].val = good[i].val.fields[j].val
    /\ (mode = "flatten" /\ source = "ndjson") =>
           LET objs == ObjectLines(input)
               R == Rows(outfile)
           IN  \A i \in 1..Len(R) : \A k \in Keys(objs[i].val) :
                   ValueOf(objs[i].val, k).s > 0
                       => ValueOf(R[i].val, k)
                              = Lit("cell", ValueOf(objs[i].val, k).u, ValueOf(objs[i].val, k).s)

\* Two values with the same fields, whatever their order.
SameRecord(v, w) ==
    /\ v.isobj = w.isobj
    /\ {v.fields[i] : i \in 1..Len(v.fields)} = {w.fields[i] : i \in 1..Len(w.fields)}

\* C7: a JSON array converted by convert_json_to_ndjson and back by
\* convert_ndjson_to_json, with any batch sizes >= 1, is the same sequence of
\* records: same count, same order, each record the same up to key order,
\* numbers compared by their text.
C7_RoundTrip ==
    (/\ stage = 2 /\ pc = "done" /\ outcome = "ok"
     /\ origin.batch_size >= 1 /\ batch_size >= 1)
    => LET R == origin.input.items
           W == WrittenValues(outfile)
       IN  /\ Len(W) = Len(R)
           /\ \A i \in 1..Len(R) : SameRecord(W[i], R[i].val)

\* '[\n', the objects with ',\n' between every two of them and nowhere else,
\* '\n]'.
WellFormedArray(out) ==
    /\ Len(out) >= 2
    /\ out[1] = Piece("open")
    /\ out[Len(out)] = Piece("close")
    /\ LET body == SubSeq(out, 2, Len(out) - 1)
       IN  /\ Len(body) = 0 \/ Len(body) % 2 = 1
           /\ \A i \in 1..Len(body) :
                  IF i % 2 = 1 THEN body[i].t = "obj" ELSE body[i] = Piece("sep")

NothingWritten == Len(WrittenValues(outfile)) = 0

RunningNdjsonToJson ==
    mode = "ndjson_to_json" /\ input.exists /\ batch_size >= 1

\* The framing of the output of a completed convert_ndjson_to_json.
ArrayFraming ==
    (RunningNdjsonToJson /\ pc = "done" /\ outcome = "ok") =>
        /\ WellFormedArray(outfile)
        /\ Len(WrittenValues(outfile)) = Len(OfKind(input.items, "json"))

\* C8 as stated: the framing, and is_first_object true exactly while no
\* record has been written, at every point of the run.
C8_FirstFlagAtEveryPoint ==
    /\ ArrayFraming
    /\ (RunningNdjsonToJson /\ pc \in {"stream", "final", "done"}) =>
           (is_first_object <=> NothingWritten)

\* C8, amended: the framing; is_first_object is true exactly while no record
\* has been written as long as the loop runs; the final batch is written
\* without assigning the flag, so after the loop the flag is false only if
\* something was written, and true only if no full batch was.
C8_ArrayFraming ==
    /\ ArrayFraming
    /\ (RunningNdjsonToJson /\ pc = "stream") => (is_first_object <=> NothingWritten)
    /\ (RunningNdjsonToJson /\ pc \in {"final", "done"}) =>
           /\ (~is_first_object => ~NothingWritten)
           /\ (is_first_object => Len(Logged("batch")) = 0)

\* A completed run over an input with a blank and a malformed line that
\* wrote two batches.
C8_Witness ==
    /\ RunningNdjsonToJson /\ pc = "done" /\ outcome = "ok"
    /\ batch_size = 1
    /\ Len(OfKind(input.items, "blank")) = 1
    /\ Len(OfKind(input.items, "bad")) = 1
    /\ Len(WrittenValues(outfile)) = 2

\* The first character of the file that is not whitespace, '' when there is
\* none.
first_non_whitespace(f) ==
    IF f.shape = "array" THEN "["
    ELSE LET texts == {i \in 1..Len(f.items) : f.items[i].kind # "blank"}
         IN  IF texts = {} THEN ""
             ELSE line_first_char(f.items[CHOOSE i \in texts : \A j \in texts : i <= j])

\* C9: flatten_json_stream takes the JSON-array branch exactly when the first
\* character of the input that is not whitespace is '['.
C9_DetectByFirstNonWhitespace ==
    (mode = "flatten" /\ source # "none") =>
        (source = "array" <=> first_non_whitespace(input) = "[")

\* C10: in the NDJSON branch of flatten_json_stream a blank or undecodable
\* line is skipped: the run ends normally and every object line, those after
\* the skipped line included, has its row in the CSV.  (Stated for inputs
\* whose objects all have the fields of the first one.)
C10_NdjsonBranchSkipsLines ==
    (/\ mode = "flatten" /\ pc = "done"
     /\ input.exists /\ input.shape = "lines"
     /\ \E i, j \in 1..Len(input.items) :
            /\ i < j
            /\ input.items[i].kind # "json"
            /\ input.items[j].kind = "json" /\ input.items[j].val.isobj
     /\ \A i, j \in 1..Len(ObjectLines(input)) :
            Keys(ObjectLines(input)[i].val) = Keys(ObjectLines(input)[j].val))
    => /\ outcome = "ok"
       /\ Len(Rows(outfile)) = Len(ObjectLines(input))

\* C11: a batch_size of 0 or less is a configuration error: with such a
\* batch size the converters take no record into a batch and write none.
C11_NonPositiveBatchSizeRejected ==
    (Converting /\ batch_size <= 0) =>
        /\ Len(batch) = 0
        /\ NothingWritten
        /\ Len(Flushes) = 0

\* C12: every run of a converter ends with the summary as its last log
\* record, whatever the outcome.
C12_SummaryOnEveryOutcome ==
    (Converting /\ pc = "done") =>
        /\ Len(log) > 0
        /\ log[Len(log)].msg = "complete"

\* C13: when the input cannot be opened, the output file is never opened,
\* created or truncated and nothing is written to it; the run ends at once,
\* with the missing input logged.
C13_NoOutputWithoutInput ==
    ~input.exists =>
        /\ out_state = "absent"
        /\ outfile = <<>>
        /\ pc \in {"start", "done"}
        /\ (pc = "done" =>
               /\ outcome = "notfound"
               /\ Len(Logged("input_not_found")) = 1)

\* convert_ndjson_to_json has returned from a missing input.
C13_Witness ==
    /\ mode = "ndjson_to_json"
    /\ ~input.exists
    /\ pc = "done"

\* C15: with batch_size B >= 1 the pending batch never holds more than B
\* records, holds fewer than B whenever the next record is pulled, and every
\* batch written has between 1 and B records.
C15_BoundedBuffer ==
    (Converting /\ batch_size >= 1) =>
        /\ Len(batch) <= batch_size
        /\ (pc = "stream" => Len(batch) < batch_size)
        /\ \A i \in 1..Len(Flushes) : Flushes[i].n >= 1 /\ Flushes[i].n <= batch_size

\* A full batch of two has been written and one record is pending, with
\* input left to read.
C15_Witness ==
    /\ Converting /\ batch_size = 2
    /\ pc = "stream"
    /\ Len(Flushes) = 1
    /\ Flushes[1].n = 2
    /\ Len(batch) = 1

\* C18: object_count is the number of records in the output at every point
\* of a converter's run; a step changes it only by writing one batch, and by
\* that batch's length; the summary of a completed run reports the number of
\* records in the output.
C18_CountMatchesOutput ==
    /\ [](Converting =>
            /\ object_count = Len(WrittenValues(outfile))
            /\ (pc = "done" /\ outcome = "ok" =>
                   log[Len(log)] = Ev("INFO", "complete", Len(WrittenValues(outfile)))))
    /\ [][(Converting /\ stage' = stage) =>
            IF object_count' = object_count
            THEN Flushes' = Flushes
            ELSE /\ Len(Flushes') = Len(Flushes) + 1
                 /\ Flushes'[Len(Flushes')].n = object_count' - object_count
                 /\ IsPrefix(Flushes, Flushes')]_vars

\* A completed run that counted three records, written in two batches.
C18_Witness ==
    /\ Converting /\ stage = 1 /\ batch_size = 2
    /\ pc = "done" /\ outcome = "ok"
    /\ object_count = 3
    /\ Len(Flushes) = 2

\* C20: when the array parser fails after handing over k elements, with
\* batch_size B >= 1, the output holds exactly the first B * (k div B)
\* records; the k mod B records of the pending batch are not written.
C20_PartialBatchLostOnError ==
    (BrokenArray /\ batch_size >= 1 /\ pc = "done" /\ outcome = "jsonerror") =>
        LET k == input.yields
            B == batch_size
        IN  /\ WrittenValues(outfile)
                   = TranscodedAll(SubSeq(input.items, 1, B * (k \div B)))
            /\ Len(batch) = k % B
            /\ DumpedAll(batch)
                   = TranscodedAll(SubSeq(input.items, B * (k \div B) + 1, k))

\* The parser failed after three elements with batches of two: two records
\* are in the output, the third was pending.
C20_Witness ==
    /\ BrokenArray /\ batch_size = 2
    /\ pc = "done" /\ outcome = "jsonerror"
    /\ input.yields = 3
    /\ Len(WrittenValues(outfile)) = 2
    /\ Len(batch) = 1

WithoutBlank(items) == SelectSeq(items, LAMBDA l : l.kind # "blank")

\* The pieces of a JSON array file holding these values.
RECURSIVE Separated(_)
Separated(vals) ==
    IF Len(vals) = 0 THEN <<>>
    ELSE IF Len(vals) = 1 THEN <<Tok("obj", vals[1])>>
    ELSE <<Tok("obj", vals[1]), Piece("sep")>> \o Separated(Tail(vals))

Framed(vals) == <<Piece("open")>> \o Separated(vals) \o <<Piece("close")>>

\* C17: in convert_ndjson_to_json the output and the success count of a
\* completed run are those of the input with its blank lines removed; a
\* blank line is no record and no error: the step that reads it changes
\* nothing but the position and logs one debug record, and the decode errors
\* logged are those of the malformed lines.
C17_BlankLinesSkipped ==
    /\ []((mode = "ndjson_to_json" /\ pc = "done" /\ outcome = "ok") =>
            /\ outfile = Framed(TranscodedAll(WithoutBlank(input.items)))
            /\ object_count = Len(OfKind(WithoutBlank(input.items), "json"))
            /\ Len(Logged("decode_error")) = Len(OfKind(input.items, "bad"))
            /\ Len(Logged("skip_empty")) = Len(OfKind(input.items, "blank")))
    /\ [][(/\ mode = "ndjson_to_json"
           /\ pc = "stream"
           /\ pos < Len(input.items)
           /\ pos' = pos + 1
           /\ input.items[pos + 1].kind = "blank")
          => /\ UNCHANGED <<batch, is_first_object, object_count, outfile, pc, outcome>>
             /\ log' = Append(log, Ev("DEBUG", "skip_empty", pos + 1))]_vars

\* A completed run over a record between a blank first line and two blank
\* last lines.
C17_Witness ==
    /\ mode = "ndjson_to_json" /\ stage = 1
    /\ pc = "done" /\ outcome = "ok"
    /\ Len(input.items) = 4
    /\ input.items[1].kind = "blank"
    /\ input.items[2].kind = "json"
    /\ input.items[3].kind = "blank"
    /\ input.items[4].kind = "blank"
    /\ Len(WrittenValues(outfile)) = 1

\* The dict items _write_to_csv has taken from its source so far.
ConsumedObjects ==
    SelectSeq([i \in 1..pos |-> source_item(input, source, i)], LAMBDA it : it.isobj)

KeySeq(item) == [i \in 1..Len(item.fields) |-> item.fields[i].key]

\* C16: in _write_to_csv the header is the first record's field names in
\* their order, it is written once as the first row of the file, and it
\* never changes afterwards; every row has the header's columns in the
\* header's order, with the record's value in a column the record has and an
\* empty cell in a column it lacks.
C16_HeaderFromFirstRecord ==
    /\ []((mode = "flatten" /\ header_written) =>
            LET objs == ConsumedObjects
                R == Rows(outfile)
            IN  /\ Len(objs) >= 1
                /\ fieldnames = KeySeq(objs[1])
                /\ Len(outfile) = 1 + Len(R)
                /\ outfile[1].t = "header"
                /\ KeySeq(outfile[1].val) = fieldnames
                /\ Len(R) <= Len(objs)
                /\ \A k \in 1..Len(R) :
                      /\ KeySeq(R[k].val) = fieldnames
                      /\ \A c \in 1..Len(fieldnames) :
                            R[k].val.fields[c].val =
                                IF fieldnames[c] \in Keys(objs[k])
                                THEN csv_cell(ValueOf(objs[k], fieldnames[c]))
                                ELSE Lit("empty", 0, 0))
    /\ [][(mode = "flatten" /\ header_written)
              => (header_written' /\ fieldnames' = fieldnames)]_vars

\* A completed run whose second record lacks field b of the header a,b.
C16_Witness ==
    /\ mode = "flatten" /\ pc = "done" /\ outcome = "ok"
    /\ fieldnames = <<"a", "b">>
    /\ Len(Rows(outfile)) >= 2
    /\ Rows(outfile)[2].val.fields[2].val = Lit("empty", 0, 0)
    /\ Rows(outfile)[2].val.fields[1].val.k = "cell"

\* C19: convert_ndjson_to_json, convert_json_to_ndjson and
\* flatten_json_stream let no exception out: whatever fails (the input is
\* missing, the output cannot be opened, the container does not parse, a
\* read or a write fails while streaming), the run ends with the failure
\* logged as its last record, at error or critical severity; and the step
\* of convert_ndjson_to_json that reads an undecodable line leaves the run
\* running.
C19_NoExceptionPropagates ==
    /\ [](outcome \in {"running", "ok", "notfound", "jsonerror", "error"})
    /\ []((pc = "done" /\ outcome # "ok") =>
            /\ Len(log) > 0
            /\ log[Len(log)].lvl \in {"ERROR", "CRITICAL"})
    /\ [][(/\ mode = "ndjson_to_json"
           /\ pc = "stream"
           /\ pos < Len(input.items)
           /\ pos' = pos + 1
           /\ input.items[pos + 1].kind = "bad")
          => (outcome' = "running" /\ pc' \in {"stream", "final"})]_vars

\* convert_ndjson_to_json has logged a decode error and gone on, and a later
\* read or write failure has ended the run through `except Exception`.
C19_Witness ==
    /\ mode = "ndjson_to_json" /\ pc = "done" /\ outcome = "error"
    /\ Len(Logged("decode_error")) >= 1
    /\ Len(Flushes) >= 1
    /\ log[Len(log)] = Ev("CRITICAL", "unexpected_error", 0)

\* What infer_avro_schema_from_duckdb gives a column of this type.
InferredType(col_type) ==
    LET base == type_mapping_get(split_paren(col_type))
    IN  IF base.kind # "ref" THEN base
        ELSE IF base.type = "DATE" THEN AvroType("dict", "int", "date", 0, 0)
        ELSE AvroType("dict", "bytes", "decimal", 18, 2)

\* C14: the schema convert_ndjson_to_formats hands to parse_schema has one
\* field per column, in the table's order; the field of a DECIMAL column is
\* the union of null and string, the field of any other column is the union
\* of null and the type infer_avro_schema_from_duckdb gave it, and no field
\* has the decimal logical type, however many DECIMAL columns there are.
C14_DecimalColumnsDemoted ==
    (mode = "formats" /\ pc = "done") =>
        /\ Len(parsed_schema) = Len(description)
        /\ \A i \in 1..Len(description) :
              /\ parsed_schema[i].name = description[i].name
              /\ parsed_schema[i].type[1] = AvroName("null")
              /\ parsed_schema[i].type[2].logicalType # "decimal"
              /\ parsed_schema[i].type[2] =
                    IF description[i].type.base = "DECIMAL"
                    THEN AvroName("string")
                    ELSE InferredType(description[i].type)

\* A table with two DECIMAL columns of different precision around a DATE
\* column, after parse_schema.
C14_Witness ==
    /\ mode = "formats" /\ pc = "done"
    /\ Len(description) = 3
    /\ description[1].type = ColType("DECIMAL", "(18,2)")
    /\ description[2].type = ColType("DATE", "")
    /\ description[3].type = ColType("DECIMAL", "(10,4)")
    /\ parsed_schema[2].type[2].logicalType = "date"

\* The header rows written to the CSV file.
Headers(out) == SelectSeq(out, LAMBDA p : p.t = "header")

\* C21: in _write_to_csv the step that takes an item that is no JSON object
\* only logs a warning and goes on; the header exists exactly when an object
\* has been taken, it is the field names of the first object taken, and it
\* is the first row of the file and the only header row; while no object
\* has been taken the file is empty, so a run over an input with no object
\* ends with an output that has no header and no row.
C21_NonObjectsSkipped ==
    /\ []((mode = "flatten" /\ pc # "start" /\ input.exists) =>
            LET objs == ConsumedObjects
            IN  /\ header_written <=> Len(objs) >= 1
                /\ Len(Headers(outfile)) = (IF Len(objs) >= 1 THEN 1 ELSE 0)
                /\ Len(objs) >= 1 =>
                      /\ fieldnames = KeySeq(objs[1])
                      /\ outfile[1].t = "header"
                      /\ KeySeq(outfile[1].val) = KeySeq(objs[1])
                /\ Len(objs) = 0 => outfile = <<>>
                /\ (pc = "done" /\ Len(objs) = 0) => out_state = "closed")
    /\ [][(/\ mode = "flatten"
           /\ pc = "stream"
           /\ pos' = pos + 1
           /\ ~source_item(input, source, pos + 1).isobj)
          => /\ pc' = "stream"
             /\ outcome' = "running"
             /\ UNCHANGED <<outfile, fieldnames, header_written, out_state>>
             /\ log' = Append(log, Ev("WARNING", "skip_non_dict", pos))]_vars

\* A completed run whose first item is a number and whose header comes from
\* the second item.
C21_Witness ==
    /\ mode = "flatten" /\ pc = "done" /\ outcome = "ok"
    /\ pos >= 2
    /\ ~source_item(input, source, 1).isobj
    /\ source_item(input, source, 2).isobj
    /\ fieldnames = KeySeq(source_item(input, source, 2))
    /\ Len(Logged("skip_non_dict")) >= 1
    /\ outfile[1].t = "header"
    /\ Len(Rows(outfile)) >= 1

====
